---- MODULE Spec2Model ----
(***************************************************************************)
(* Model of app.py, the Kunstlotteri Streamlit script: the helpers          *)
(* find_header_row, read_vipps_report, build_full_name, extract_bilde and   *)
(* the top-level script that filters, aggregates and renders one upload.    *)
(*                                                                          *)
(* Text is a sequence of one-character strings, so that strip, lower,       *)
(* substring search and the two regular expressions are computed character  *)
(* by character as Python does.  Amounts are whole kroner.                  *)
(***************************************************************************)
EXTENDS Integers, Sequences, FiniteSets, TLC

(***************************************************************************)
(* Characters                                                              *)
(***************************************************************************)
UpperChars == <<"A","B","C","D","E","F","G","H","I","J","K","L","M",
                "N","O","P","Q","R","S","T","U","V","W","X","Y","Z">>
LowerChars == <<"a","b","c","d","e","f","g","h","i","j","k","l","m",
                "n","o","p","q","r","s","t","u","v","w","x","y","z">>
DigitChars == <<"0","1","2","3","4","5","6","7","8","9">>

\* Code-point order of the characters the model uses (Python compares str by
\* code point): space < '-' < digits < ':' < upper case < '_' < lower case.
CharOrder == <<" ", "-">> \o DigitChars \o <<":">> \o UpperChars \o <<"_">> \o LowerChars

Range(s) == { s[i] : i \in 1..Len(s) }
IndexIn(seq, c) == CHOOSE i \in 1..Len(seq) : seq[i] = c

Chars == Range(CharOrder)
UpperSet == Range(UpperChars)
LowerSet == Range(LowerChars)
DigitSet == Range(DigitChars)
OrdOf == [c \in Chars |-> IndexIn(CharOrder, c)]
LowerOf == [c \in Chars |-> IF c \in UpperSet THEN LowerChars[IndexIn(UpperChars, c)] ELSE c]
UpperOf == [c \in Chars |-> IF c \in LowerSet THEN UpperChars[IndexIn(LowerChars, c)] ELSE c]

IsUpper(c) == c \in UpperSet
IsLower(c) == c \in LowerSet
IsDigit(c) == c \in DigitSet
IsLetter(c) == IsUpper(c) \/ IsLower(c)
\* \s of the re module, over the characters of the model
IsSpace(c) == c = " "
\* \w of the re module: letters, digits and underscore
IsWordChar(c) == IsLetter(c) \/ IsDigit(c) \/ c = "_"

Ord(c) == OrdOf[c]

\* str.lower() and str.upper() on one character
LowerCh(c) == LowerOf[c]
UpperCh(c) == UpperOf[c]

(***************************************************************************)
(* Strings                                                                 *)
(***************************************************************************)
Lower(s) == [i \in 1..Len(s) |-> LowerCh(s[i])]

\* s[a..b] (1-based, inclusive); empty when a > b
Slice(s, a, b) == IF a > b THEN <<>> ELSE SubSeq(s, a, b)

\* str.strip(): drop leading and trailing whitespace
Strip(s) ==
  LET nonsp == { i \in 1..Len(s) : ~IsSpace(s[i]) }
  IN IF nonsp = {} THEN <<>>
     ELSE LET lo == CHOOSE i \in nonsp : \A j \in nonsp : i <= j
              hi == CHOOSE i \in nonsp : \A j \in nonsp : j <= i
          IN SubSeq(s, lo, hi)

\* t occurs in s at position p (1-based)
OccursAt(s, t, p) ==
  /\ p >= 1
  /\ p + Len(t) - 1 <= Len(s)
  /\ \A k \in 1..Len(t) : s[p + k - 1] = t[k]

\* Series.str.contains(t, case=False) for a literal t
ContainsNoCase(s, t) ==
  \E p \in 1..(Len(s) + 1) : OccursAt(Lower(s), Lower(t), p)

\* str.split(" ")[0]: the text before the first space (all of it if none)
FirstToken(s) ==
  LET sp == { i \in 1..Len(s) : s[i] = " " }
  IN IF sp = {} THEN s
     ELSE Slice(s, 1, (CHOOSE i \in sp : \A j \in sp : i <= j) - 1)

\* Python's < on str: lexicographic by code point, a proper prefix is smaller
RECURSIVE StrLess(_, _)
StrLess(a, b) ==
  IF b = <<>> THEN FALSE
  ELSE IF a = <<>> THEN TRUE
  ELSE IF Ord(a[1]) < Ord(b[1]) THEN TRUE
  ELSE IF Ord(a[1]) > Ord(b[1]) THEN FALSE
  ELSE StrLess(Tail(a), Tail(b))

(***************************************************************************)
(* Cells of a sheet: missing (NaN), text, or a whole number                *)
(***************************************************************************)
NaN == [k |-> "na", s |-> <<>>, n |-> 0]
Txt(s) == [k |-> "str", s |-> s, n |-> 0]
Num(n) == [k |-> "num", s |-> <<>>, n |-> n]

RECURSIVE NatToStr(_)
NatToStr(n) ==
  IF n < 10 THEN <<DigitChars[n + 1]>>
  ELSE NatToStr(n \div 10) \o <<DigitChars[(n % 10) + 1]>>

\* str(x) of a cell value: a missing value prints as "nan"
Str(c) ==
  IF c.k = "na" THEN <<"n","a","n">>
  ELSE IF c.k = "str" THEN c.s
  ELSE IF c.n < 0 THEN <<"-">> \o NatToStr(0 - c.n)
  ELSE NatToStr(c.n)

RECURSIVE DigitsToNat(_)
DigitsToNat(s) ==
  IF s = <<>> THEN 0
  ELSE 10 * DigitsToNat(SubSeq(s, 1, Len(s) - 1)) + (IndexIn(DigitChars, s[Len(s)]) - 1)

\* pd.to_numeric(x, errors="coerce") followed by fillna(0), in whole kroner:
\* a number is itself, text parses when it is an optionally signed run of
\* digits (surrounding blanks allowed), everything else becomes 0
ToNumeric(c) ==
  IF c.k = "num" THEN c.n
  ELSE IF c.k = "na" THEN 0
  ELSE LET t == Strip(c.s)
           neg == t # <<>> /\ t[1] = "-"
           d == IF neg THEN Tail(t) ELSE t
       IN IF d # <<>> /\ \A i \in 1..Len(d) : IsDigit(d[i])
          THEN (IF neg THEN 0 - DigitsToNat(d) ELSE DigitsToNat(d))
          ELSE 0

(***************************************************************************)
(* Helpers of app.py                                                       *)
(***************************************************************************)
sSalgssted == <<"S","a","l","g","s","s","t","e","d">>
sTransaksjonstype ==
  <<"T","r","a","n","s","a","k","s","j","o","n","s","t","y","p","e">>
sBrutto == <<"B","r","u","t","t","o">>
sFornavn == <<"F","o","r","n","a","v","n">>
sEtternavn == <<"E","t","t","e","r","n","a","v","n">>
sMelding == <<"M","e","l","d","i","n","g">>
sSalg == <<"s","a","l","g">>
sNan == <<"n","a","n">>
sUkjent == <<"U","k","j","e","n","t">>
sLoddBilde == <<"L","o","d","d"," ","b","i","l","d","e">>
sLodd == <<"l","o","d","d">>
sBilde == <<"b","i","l","d","e">>

\* find_header_row's "not found" (Python None)
NoRow == -1
\* extract_bilde's "no match" (Python None)
NoBilde == "None"
\* range(min(len(raw), 200))
ScanLimit == 200

Min(a, b) == IF a < b THEN a ELSE b
Max(a, b) == IF a > b THEN a ELSE b

\* variant: the marker is searched as a plain substring, without \b
MatchesMarker_NoBoundary(s) == \E p \in 1..Len(s) : OccursAt(Lower(s), Lower(sSalgssted), p)

\* re.search(r"\bSalgssted\b", s, re.IGNORECASE) is not None
MatchesMarker(s) ==
  \E p \in 1..Len(s) :
    /\ OccursAt(Lower(s), Lower(sSalgssted), p)
    /\ (IF p = 1 THEN TRUE ELSE ~IsWordChar(s[p - 1]))
    /\ (IF p + Len(sSalgssted) > Len(s) THEN TRUE ELSE ~IsWordChar(s[p + Len(sSalgssted)]))

\* row.str.contains(r"\bSalgssted\b", case=False, na=False).any()
RowHasMarker(row) == \E j \in 1..Len(row) : MatchesMarker(Str(row[j]))

\* first position >= p of s that is not whitespace (Len(s)+1 if none): \s*
RECURSIVE SkipSpaces(_, _)
SkipSpaces(s, p) ==
  IF p <= Len(s) /\ IsSpace(s[p]) THEN SkipSpaces(s, p + 1) ELSE p

\* BILDE_RE matched at position p: the position of the captured letter, 0 if
\* the pattern lodd\s*bilde\s*([A-Z]) (IGNORECASE) does not match there
BildeMatchAt(s, p) ==
  IF ~OccursAt(Lower(s), sLodd, p) THEN 0
  ELSE LET q == SkipSpaces(s, p + Len(sLodd))
       IN IF ~OccursAt(Lower(s), sBilde, q) THEN 0
          ELSE LET r == SkipSpaces(s, q + Len(sBilde))
               IN IF r <= Len(s) /\ IsLetter(s[r]) THEN r ELSE 0

\* BILDE_RE.search(s): the leftmost match's group(1), upper-cased
extract_bilde(salgssted) ==
  IF salgssted = <<>> \/ Lower(salgssted) = sNan THEN NoBilde
  ELSE LET hits == { p \in 1..Len(salgssted) : BildeMatchAt(salgssted, p) > 0 }
       IN IF hits = {} THEN NoBilde
          ELSE LET p == CHOOSE x \in hits : \A y \in hits : x <= y
               IN UpperCh(salgssted[BildeMatchAt(salgssted, p)])

\* row.get(name, default) on a row of a frame with the given column labels
Get(columns, row, name, default) ==
  LET at == { i \in 1..Len(columns) : columns[i] = name }
  IN IF at = {} THEN default
     ELSE row[CHOOSE i \in at : \A j \in at : i <= j]

HasColumn(columns, name) == \E i \in 1..Len(columns) : columns[i] = name

\* variant: the last name is appended without the "nan" test
build_full_name_NoNanTest(columns, row) ==
  LET fn == Strip(Str(Get(columns, row, sFornavn, Txt(<<>>))))
      en == Strip(Str(Get(columns, row, sEtternavn, Txt(<<>>))))
      msg == Strip(Str(Get(columns, row, sMelding, Txt(<<>>))))
  IN IF fn # <<>> /\ Lower(fn) # sNan
     THEN (IF en # <<>> THEN Strip(fn \o <<" ">> \o en) ELSE fn)
     ELSE IF msg # <<>> /\ Lower(msg) # sNan THEN msg
     ELSE sUkjent

build_full_name(columns, row) ==
  LET fn == Strip(Str(Get(columns, row, sFornavn, Txt(<<>>))))
      en == Strip(Str(Get(columns, row, sEtternavn, Txt(<<>>))))
      msg == Strip(Str(Get(columns, row, sMelding, Txt(<<>>))))
  IN IF fn # <<>> /\ Lower(fn) # sNan
     THEN (IF en # <<>> /\ Lower(en) # sNan THEN Strip(fn \o <<" ">> \o en) ELSE fn)
     ELSE IF msg # <<>> /\ Lower(msg) # sNan THEN msg
     ELSE sUkjent

\* the "Kun fornavn" lambda: first token of the trimmed name, "Ukjent" if blank
first_name_only(s) ==
  IF Strip(s) # <<>> THEN FirstToken(Strip(s)) ELSE sUkjent

(***************************************************************************)
(* Frames                                                                  *)
(***************************************************************************)
ColIndex(columns, name) ==
  CHOOSE i \in 1..Len(columns) : columns[i] = name /\ \A j \in 1..(i - 1) : columns[j] # name

\* df[name] = df[name].astype(str)
AsTypeStr(columns, rows, name) ==
  LET c == ColIndex(columns, name)
  IN [r \in 1..Len(rows) |-> [rows[r] EXCEPT ![c] = Txt(Str(rows[r][c]))]]

\* df[mask]: the rows whose index is in I, in their order
SelectIdx(rows, I) ==
  LET F[i \in 0..Len(rows)] ==
        IF i = 0 THEN <<>>
        ELSE IF i \in I THEN Append(F[i - 1], rows[i]) ELSE F[i - 1]
  IN F[Len(rows)]

\* x put into a sorted sequence in front of the first of the positions
\* `before` (those holding an element that sorts after x), else at the end
InsertBefore(sorted, x, before) ==
  LET k == IF before = {} THEN Len(sorted) + 1
           ELSE CHOOSE j \in before : \A m \in before : j <= m
  IN Slice(sorted, 1, k - 1) \o <<x>> \o Slice(sorted, k, Len(sorted))

RECURSIVE SumBrutto(_)
SumBrutto(rows) ==
  IF rows = <<>> THEN 0 ELSE Head(rows).Brutto + SumBrutto(Tail(rows))

RECURSIVE SumClamped(_)
SumClamped(rows) ==
  IF rows = <<>> THEN 0 ELSE Head(rows).Lodd_clamped + SumClamped(Tail(rows))

\* [x] * count
RECURSIVE Repeat(_, _)
Repeat(x, count) == IF count <= 0 THEN <<>> ELSE <<x>> \o Repeat(x, count - 1)

BildeLess(a, b) == Ord(a) < Ord(b)
KeyLess(a, b) ==
  \/ BildeLess(a[1], b[1])
  \/ a[1] = b[1] /\ StrLess(a[2], b[2])

\* the group keys in the order groupby(sort=True) gives them
SortedKeys(S) ==
  [i \in 1..Cardinality(S) |->
     CHOOSE x \in S : Cardinality({ y \in S : KeyLess(y, x) }) = i - 1]

\* math.floor(brutto / float(loddpris)) for loddpris >= 1
FloorDiv(brutto, pris) == brutto \div pris

\* Series.round() of brutto / loddpris: to nearest, a tie goes to the even
\* neighbour (numpy rounding)
RoundDiv(brutto, pris) ==
  LET q == brutto \div pris
      r == brutto % pris
  IN IF 2 * r < pris THEN q
     ELSE IF 2 * r > pris THEN q + 1
     ELSE IF q % 2 = 0 THEN q ELSE q + 1

LoddOf(brutto, pris, rdown) ==
  IF rdown THEN FloorDiv(brutto, pris) ELSE RoundDiv(brutto, pris)

\* variant: every row is rounded on its own and the counts are added
GroupSum_PerRow(lodd_rows, pris, rdown) ==
  LET keys == { <<lodd_rows[i].Bilde, lodd_rows[i].Navn>> : i \in 1..Len(lodd_rows) }
      InKey(k) == SelectIdx(lodd_rows, { i \in 1..Len(lodd_rows) :
                             lodd_rows[i].Bilde = k[1] /\ lodd_rows[i].Navn = k[2] })
      order == SortedKeys(keys)
      PerRow(rows) ==
        LET F[i \in 0..Len(rows)] ==
              IF i = 0 THEN 0 ELSE F[i - 1] + LoddOf(rows[i].Brutto, pris, rdown)
        IN F[Len(rows)]
  IN [i \in 1..Len(order) |->
        LET total == SumBrutto(InKey(order[i]))
        IN [Bilde |-> order[i][1], Navn |-> order[i][2], Brutto |-> total,
            Lodd_raw |-> <<total, pris>>, Lodd |-> PerRow(InKey(order[i]))]]

\* df_lodd.groupby(["Bilde", "Navn"], as_index=False).agg(Brutto=("Brutto", "sum")),
\* then Lodd_raw and Lodd: one entry per key, keys in sorted order
GroupSum(lodd_rows, pris, rdown) ==
  LET keys == { <<lodd_rows[i].Bilde, lodd_rows[i].Navn>> : i \in 1..Len(lodd_rows) }
      InKey(k) == SelectIdx(lodd_rows, { i \in 1..Len(lodd_rows) :
                             lodd_rows[i].Bilde = k[1] /\ lodd_rows[i].Navn = k[2] })
      order == SortedKeys(keys)
  IN [i \in 1..Len(order) |->
        LET total == SumBrutto(InKey(order[i]))
        IN [Bilde |-> order[i][1], Navn |-> order[i][2], Brutto |-> total,
            Lodd_raw |-> <<total, pris>>, Lodd |-> LoddOf(total, pris, rdown)]]

\* variant: only positive sums are tested
NonMultiple_PositiveOnly(entries, pris) ==
  SelectIdx(entries, { i \in 1..Len(entries) :
                         entries[i].Brutto > 0 /\ entries[i].Brutto % pris # 0 })

\* agg[(agg["Brutto"] % float(loddpris)) != 0]
NonMultiple(entries, pris) ==
  SelectIdx(entries, { i \in 1..Len(entries) : entries[i].Brutto % pris # 0 })

\* non_multiple.sort_values(["Bilde", "Navn"])
SortView(seq) ==
  LET F[i \in 0..Len(seq)] ==
        IF i = 0 THEN <<>>
        ELSE InsertBefore(F[i - 1], seq[i],
               { j \in 1..Len(F[i - 1]) :
                   KeyLess(<<seq[i].Bilde, seq[i].Navn>>, <<F[i - 1][j].Bilde, F[i - 1][j].Navn>>) })
  IN F[Len(seq)]

\* sorted(agg["Bilde"].unique().tolist())
Bilder(entries) ==
  LET S == { entries[i].Bilde : i \in 1..Len(entries) }
  IN [i \in 1..Cardinality(S) |->
        CHOOSE x \in S : Cardinality({ y \in S : BildeLess(y, x) }) = i - 1]

\* variant: the sort forgets the ticket count
LoddNavnLess_NameOnly(a, b) == StrLess(a.Navn, b.Navn)

LoddNavnLess(a, b) ==
  \/ a.Lodd > b.Lodd
  \/ a.Lodd = b.Lodd /\ StrLess(a.Navn, b.Navn)

\* sort_values(["Lodd", "Navn"], ascending=[False, True]), stable
SortSub(seq) ==
  LET F[i \in 0..Len(seq)] ==
        IF i = 0 THEN <<>>
        ELSE InsertBefore(F[i - 1], seq[i],
               { j \in 1..Len(F[i - 1]) : LoddNavnLess(seq[i], F[i - 1][j]) })
  IN F[Len(seq)]

\* sub: the artwork's entries sorted by Lodd descending, Navn ascending, with
\* Lodd_clamped = max(Lodd, 0)
SubOf(entries, bilde) ==
  LET mine == SelectIdx(entries, { i \in 1..Len(entries) : entries[i].Bilde = bilde })
      sorted == SortSub(mine)
  IN [i \in 1..Len(sorted) |->
        [Navn |-> sorted[i].Navn, Brutto |-> sorted[i].Brutto,
         Lodd |-> sorted[i].Lodd, Lodd_clamped |-> Max(sorted[i].Lodd, 0)]]

\* the loop that fills wheel_names
RECURSIVE WheelNames(_)
WheelNames(sub) ==
  IF sub = <<>> THEN <<>>
  ELSE IF Head(sub).Lodd_clamped <= 0 THEN WheelNames(Tail(sub))
  ELSE Repeat(Head(sub).Navn, Head(sub).Lodd_clamped) \o WheelNames(Tail(sub))

TopN == 10
\* sub[sub["Lodd_clamped"] > 0].head(10)
Top10(sub) ==
  LET pos == SelectIdx(sub, { i \in 1..Len(sub) : sub[i].Lodd_clamped > 0 })
  IN SubSeq(pos, 1, Min(Len(pos), TopN))

(***************************************************************************)
(* The uploads the model explores                                          *)
(***************************************************************************)
MaxRows == 3
MaxMixed == 2
MaxShapeRows == 1

sAnna == <<"A","n","n","a">>
sLi == <<"L","i">>
sCy == <<"C","y">>
sHei == <<"h","e","i">>
sKaffe == <<"K","a","f","f","e">>
sRefusjon == <<"R","e","f","u","s","j","o","n">>
sSalgsstedet == sSalgssted \o <<"e","t">>
sBelop == <<"B","e","l","o","p">>

\* column order of the report's data rows:
\* Salgssted, Transaksjonstype, Brutto, Fornavn, Etternavn, Melding
Header == <<Txt(sSalgssted), Txt(sTransaksjonstype), Txt(sBrutto),
            Txt(sFornavn), Txt(sEtternavn), Txt(sMelding)>>
HeaderPadded == <<Txt(sSalgssted), Txt(<<" ">> \o sTransaksjonstype), Txt(sBrutto \o <<" ">>),
                  Txt(sFornavn), Txt(sEtternavn), Txt(sMelding)>>
HeaderStub == <<Txt(sSalgssted), NaN, NaN, NaN, NaN, NaN>>
HeaderNoBrutto == <<Txt(sSalgssted), Txt(sTransaksjonstype), Txt(sBelop),
                    Txt(sFornavn), Txt(sEtternavn), Txt(sMelding)>>
HeaderNoMarker == <<Txt(sSalgsstedet), Txt(sTransaksjonstype), Txt(sBrutto),
                    Txt(sFornavn), Txt(sEtternavn), Txt(sMelding)>>
LeadRow == <<Txt(<<"V","i","p","p","s"," ">> \o sSalgsstedet), NaN, NaN, NaN, NaN, NaN>>

RowPool == <<
  <<Txt(sLoddBilde \o <<" ","A">>), Txt(<<"S","a","l","g">>), Num(15), Txt(sAnna), NaN, NaN>>,
  <<Txt(sLoddBilde \o <<" ","A">>), Txt(<<" ","s","a","l","g"," ">>), Num(25), Txt(sAnna), Txt(sLi), Txt(sHei)>>,
  <<Txt(sLoddBilde \o <<" ","A">>), Txt(<<"S","a","l","g">>), Txt(<<"-","2","0">>), NaN, NaN, Txt(sCy)>>,
  <<Txt(<<"L","O","D","D"," ","B","I","L","D","E"," ","b">>), Txt(<<"S","A","L","G">>), Num(45), Txt(sAnna), NaN, NaN>>,
  <<Txt(sLoddBilde \o <<" ","5">>), Txt(<<"S","a","l","g">>), Num(20), Txt(sAnna), Txt(sLi), NaN>>,
  <<Txt(sLoddBilde \o <<" ","A">>), Txt(sRefusjon), Num(-20), Txt(sAnna), Txt(sLi), NaN>>,
  <<Txt(sKaffe), Txt(<<"S","a","l","g">>), Num(20), NaN, NaN, Txt(sCy)>>,
  <<Txt(Lower(sLoddBilde) \o <<" "," ","B">>), Txt(<<"S","a","l","g">>), Txt(<<"x">>), NaN, Txt(sLi), NaN>>,
  <<Txt(sLoddBilde \o <<"t"," ","A">>), Txt(<<"S","a","l","g">>), Num(20), Txt(sAnna), NaN, NaN>>
>>

\* the pool rows that pass both filters and get an artwork letter
TicketPool == SelectIdx(RowPool, { i \in 1..Len(RowPool) :
                /\ Lower(Strip(Str(RowPool[i][2]))) = sSalg
                /\ ContainsNoCase(Str(RowPool[i][1]), sLoddBilde)
                /\ extract_bilde(Str(RowPool[i][1])) # NoBilde })

\* every sequence of at most n rows of a pool
RowSeqs(pool, n) ==
  UNION { { [i \in 1..k |-> pool[f[i]]] : f \in [1..k -> 1..Len(pool)] } : k \in 0..n }

\* the sheets: the plain export with every sequence of ticket rows up to
\* MaxRows and every sequence of any rows up to MaxMixed, and the other
\* layouts (leading noise row and padded labels, repeated header row, no
\* marker, missing column) with the short row sequences
Files ==
  { <<Header>> \o rows : rows \in RowSeqs(TicketPool, MaxRows) }
  \cup { <<Header>> \o rows : rows \in RowSeqs(RowPool, MaxMixed) }
  \cup { <<LeadRow, HeaderPadded>> \o rows : rows \in RowSeqs(RowPool, MaxShapeRows) }
  \cup { <<HeaderStub, Header>> \o rows : rows \in RowSeqs(RowPool, MaxShapeRows) }
  \cup { <<HeaderNoMarker>> \o rows : rows \in RowSeqs(RowPool, MaxShapeRows) }
  \cup { <<HeaderNoBrutto>> \o rows : rows \in RowSeqs(RowPool, MaxShapeRows) }

\* st.number_input("Loddpris (kr)", min_value=1, value=20, step=1)
DefaultLoddpris == 20
OtherLoddpris == 15
Prices == {DefaultLoddpris, OtherLoddpris}
NameModes == {"Fullt navn", "Kun fornavn"}

(***************************************************************************)
(* State of one browser session running the script                         *)
(***************************************************************************)
VARIABLES
  pc,           \* where the script run is
  uploaded,     \* st.file_uploader: TRUE when a file is present
  raw,          \* the sheet as read with header=None (rows of cells)
  loddpris, name_mode, round_down,   \* the settings widgets
  scan_i,       \* find_header_row's loop variable i
  header_row,   \* read_vipps_report's header_row
  df,           \* [columns, rows] of the normalized report
  missing,      \* the required columns not in df.columns
  df_lodd,      \* ticket rows: [cells, Bilde, Brutto, Navn]
  agg,          \* aggregate entries
  bilder,       \* sorted artwork letters
  tab_i,        \* index of the tab the for loop renders next
  out,          \* messages rendered so far, in order
  non_multiple_view,  \* rows of the rendered non-multiple table
  tabs_out      \* rendered tabs, in order

vars == <<pc, uploaded, raw, loddpris, name_mode, round_down, scan_i, header_row, df,
          missing, df_lodd, agg, bilder, tab_i, out, non_multiple_view, tabs_out>>

settings == <<loddpris, name_mode, round_down>>
NoFrame == [columns |-> <<>>, rows |-> <<>>]
Msg(kind, what) == [kind |-> kind, what |-> what]
required_cols == {sSalgssted, sTransaksjonstype, sBrutto}

\* No file: st.info and st.stop (lines 161-163)
Idle ==
  /\ pc = "idle"
  /\ uploaded = FALSE
  /\ raw = <<>>
  /\ loddpris = DefaultLoddpris
  /\ name_mode = "Fullt navn"
  /\ round_down = TRUE
  /\ scan_i = 0
  /\ header_row = NoRow
  /\ df = NoFrame
  /\ missing = {}
  /\ df_lodd = <<>>
  /\ agg = <<>>
  /\ bilder = <<>>
  /\ tab_i = 0
  /\ out = <<Msg("info", "upload")>>
  /\ non_multiple_view = <<>>
  /\ tabs_out = <<>>

Init == Idle

\* The user picks the settings and uploads a file: the script reruns from the top
Upload ==
  /\ pc = "idle"
  /\ \E f \in Files, p \in Prices, m \in NameModes, r \in BOOLEAN :
       /\ raw' = f
       /\ loddpris' = p
       /\ name_mode' = m
       /\ round_down' = r
  /\ uploaded' = TRUE
  /\ out' = <<>>
  /\ pc' = "read"
  /\ UNCHANGED <<scan_i, header_row, df, missing, df_lodd, agg, bilder, tab_i,
                 non_multiple_view, tabs_out>>

\* label of column j (1-based) as read_excel(header=h) names it
sUnnamed == <<"U","n","n","a","m","e","d",":"," ">>
LabelCell(c, j) == IF c.k = "na" THEN Txt(sUnnamed \o NatToStr(j - 1)) ELSE c

\* read_vipps_report after the header row is known (lines 31-41)
Normalize(sheet, h) ==
  LET labels == [j \in 1..Len(sheet[h + 1]) |-> LabelCell(sheet[h + 1][j], j)]
      data == Slice(sheet, h + 2, Len(sheet))
      repeated ==
        /\ Len(data) > 0
        /\ Lower(Strip(Str(Get(labels, data[1], Txt(sSalgssted), Txt(<<>>))))) = Lower(sSalgssted)
      cols == IF repeated THEN data[1] ELSE labels
      rows == IF repeated THEN Tail(data) ELSE data
  IN [columns |-> [j \in 1..Len(cols) |-> Strip(Str(cols[j]))], rows |-> rows]

\* find_header_row, one iteration of its loop: row i has no marker
ScanRow ==
  /\ pc = "read"
  /\ scan_i < Min(Len(raw), ScanLimit)
  /\ ~RowHasMarker(raw[scan_i + 1])
  /\ scan_i' = scan_i + 1
  /\ UNCHANGED <<pc, uploaded, raw, settings, header_row, df, missing, df_lodd, agg,
                 bilder, tab_i, out, non_multiple_view, tabs_out>>

\* find_header_row returns i; read_vipps_report normalizes the frame
HeaderFound ==
  /\ pc = "read"
  /\ scan_i < Min(Len(raw), ScanLimit)
  /\ RowHasMarker(raw[scan_i + 1]) = TRUE
  /\ header_row' = scan_i
  /\ df' = Normalize(raw, scan_i)
  /\ pc' = "cols"
  /\ UNCHANGED <<uploaded, raw, settings, scan_i, missing, df_lodd, agg, bilder,
                 tab_i, out, non_multiple_view, tabs_out>>

\* the loop ends without a hit: find_header_row returns None,
\* read_vipps_report raises, the script shows the error and stops (165-169)
HeaderMissing ==
  /\ pc = "read"
  /\ scan_i >= Min(Len(raw), ScanLimit)
  /\ header_row' = NoRow
  /\ out' = Append(out, Msg("error", "header"))
  /\ pc' = "stopped"
  /\ UNCHANGED <<uploaded, raw, settings, scan_i, df, missing, df_lodd, agg, bilder,
                 tab_i, non_multiple_view, tabs_out>>

\* lines 171-175
CheckColumns ==
  /\ pc = "cols"
  /\ missing' = { c \in required_cols : ~HasColumn(df.columns, c) }
  /\ IF missing' # {}
     THEN /\ out' = Append(out, Msg("error", "missing"))
          /\ pc' = "stopped"
     ELSE /\ pc' = "filter"
          /\ UNCHANGED out
  /\ UNCHANGED <<uploaded, raw, settings, scan_i, header_row, df, df_lodd, agg, bilder,
                 tab_i, non_multiple_view, tabs_out>>

\* the mask of lines 181-184 on one row of the frame
IsLoddRow(columns, row) ==
  /\ Lower(Strip(Str(row[ColIndex(columns, sTransaksjonstype)]))) = sSalg
  /\ ContainsNoCase(Str(row[ColIndex(columns, sSalgssted)]), sLoddBilde)

TicketRow(cells) == [cells |-> cells, Bilde |-> NoBilde, Brutto |-> 0, Navn |-> <<>>]

\* lines 178-188
FilterRows ==
  /\ pc = "filter"
  /\ LET rows1 == AsTypeStr(df.columns, df.rows, sSalgssted)
         rows2 == AsTypeStr(df.columns, rows1, sTransaksjonstype)
         kept == SelectIdx(rows2, { i \in 1..Len(rows2) : IsLoddRow(df.columns, rows2[i]) })
     IN /\ df' = [df EXCEPT !.rows = rows2]
        /\ df_lodd' = [i \in 1..Len(kept) |-> TicketRow(kept[i])]
        /\ IF kept = <<>>
           THEN /\ out' = Append(out, Msg("warning", "empty"))
                /\ pc' = "stopped"
           ELSE /\ pc' = "extract"
                /\ UNCHANGED out
  /\ UNCHANGED <<uploaded, raw, settings, scan_i, header_row, missing, agg, bilder, tab_i,
                 non_multiple_view, tabs_out>>

\* lines 190-191
ExtractBilde ==
  /\ pc = "extract"
  /\ LET tagged == [i \in 1..Len(df_lodd) |->
                      [df_lodd[i] EXCEPT !.Bilde =
                         extract_bilde(Str(df_lodd[i].cells[ColIndex(df.columns, sSalgssted)]))]]
     IN df_lodd' = SelectIdx(tagged, { i \in 1..Len(tagged) : tagged[i].Bilde # NoBilde })
  /\ pc' = "numeric"
  /\ UNCHANGED <<uploaded, raw, settings, scan_i, header_row, df, missing, agg, bilder,
                 tab_i, out, non_multiple_view, tabs_out>>

\* line 194
BruttoNumeric ==
  /\ pc = "numeric"
  /\ df_lodd' = [i \in 1..Len(df_lodd) |->
                   [df_lodd[i] EXCEPT !.Brutto =
                      ToNumeric(df_lodd[i].cells[ColIndex(df.columns, sBrutto)])]]
  /\ pc' = "names"
  /\ UNCHANGED <<uploaded, raw, settings, scan_i, header_row, df, missing, agg, bilder,
                 tab_i, out, non_multiple_view, tabs_out>>

\* line 197
BuildNames ==
  /\ pc = "names"
  /\ df_lodd' = [i \in 1..Len(df_lodd) |->
                   [df_lodd[i] EXCEPT !.Navn = build_full_name(df.columns, df_lodd[i].cells)]]
  /\ pc' = "name_mode"
  /\ UNCHANGED <<uploaded, raw, settings, scan_i, header_row, df, missing, agg, bilder,
                 tab_i, out, non_multiple_view, tabs_out>>

\* lines 199-202
ReduceNames ==
  /\ pc = "name_mode"
  /\ df_lodd' = IF name_mode = "Kun fornavn"
                THEN [i \in 1..Len(df_lodd) |->
                        [df_lodd[i] EXCEPT !.Navn = first_name_only(df_lodd[i].Navn)]]
                ELSE df_lodd
  /\ pc' = "agg"
  /\ UNCHANGED <<uploaded, raw, settings, scan_i, header_row, df, missing, agg, bilder,
                 tab_i, out, non_multiple_view, tabs_out>>

\* lines 204-217
Aggregate ==
  /\ pc = "agg"
  /\ agg' = GroupSum(df_lodd, loddpris, round_down)
  /\ pc' = "non_multiple"
  /\ UNCHANGED <<uploaded, raw, settings, scan_i, header_row, df, missing, df_lodd, bilder,
                 tab_i, out, non_multiple_view, tabs_out>>

\* lines 219-232: the warning and the table, only when some entry is flagged
ReportNonMultiple ==
  /\ pc = "non_multiple"
  /\ LET non_multiple == NonMultiple(agg, loddpris)
     IN IF Len(non_multiple) > 0
        THEN /\ out' = Append(out, Msg("warning", "non_multiple"))
             /\ non_multiple_view' = SortView(non_multiple)
        ELSE UNCHANGED <<out, non_multiple_view>>
  /\ pc' = "summary"
  /\ UNCHANGED <<uploaded, raw, settings, scan_i, header_row, df, missing, df_lodd, agg,
                 bilder, tab_i, tabs_out>>

\* lines 234-240: st.success, then st.tabs, which takes at least one label:
\* with no artwork it raises (the framework shows the exception) or, in a
\* build that accepts the empty list, renders no tab
RenderSummary ==
  /\ pc = "summary"
  /\ bilder' = Bilder(agg)
  /\ \/ /\ bilder' # <<>>
        /\ out' = Append(out, Msg("success", "found"))
        /\ pc' = "tabs"
     \/ /\ bilder' = <<>>
        /\ out' = out \o <<Msg("success", "found"), Msg("exception", "st.tabs")>>
        /\ pc' = "crashed"
     \/ /\ bilder' = <<>>
        /\ out' = Append(out, Msg("success", "found"))
        /\ pc' = "tabs"
  /\ tab_i' = 1
  /\ UNCHANGED <<uploaded, raw, settings, scan_i, header_row, df, missing, df_lodd, agg,
                 non_multiple_view, tabs_out>>

\* one iteration of the for loop over the tabs (lines 244-333)
TabOf(bilde) ==
  LET sub == SubOf(agg, bilde)
      top10 == Top10(sub)
      dbg == top10 = <<>>
  IN [bilde |-> bilde,
      sub |-> sub,
      total_lodd |-> SumClamped(sub),
      buyers |-> Cardinality({ i \in 1..Len(sub) : sub[i].Lodd_clamped > 0 }),
      total_brutto |-> SumBrutto(sub),
      wheel_names |-> WheelNames(sub),
      top10 |-> top10,
      chart |-> top10 # <<>>,
      debug_shown |-> dbg,
      df_dbg |-> IF dbg
                 THEN SelectIdx(df_lodd, { i \in 1..Len(df_lodd) : df_lodd[i].Bilde = bilde })
                 ELSE <<>>]

RenderTab ==
  /\ pc = "tabs"
  /\ tab_i <= Len(bilder)
  /\ tabs_out' = Append(tabs_out, TabOf(bilder[tab_i]))
  /\ tab_i' = tab_i + 1
  /\ UNCHANGED <<pc, uploaded, raw, settings, scan_i, header_row, df, missing, df_lodd, agg,
                 bilder, out, non_multiple_view>>

\* lines 335-431: the footer ends the run
Footer ==
  /\ pc = "tabs"
  /\ tab_i > Len(bilder)
  /\ pc' = "done"
  /\ UNCHANGED <<uploaded, raw, settings, scan_i, header_row, df, missing, df_lodd, agg,
                 bilder, tab_i, out, non_multiple_view, tabs_out>>

\* The user removes the file: the script reruns and stops at the uploader;
\* the settings widgets keep their values
Reset ==
  /\ pc \in {"stopped", "crashed", "done"}
  /\ pc' = "idle"
  /\ uploaded' = FALSE
  /\ raw' = <<>>
  /\ scan_i' = 0
  /\ header_row' = NoRow
  /\ df' = NoFrame
  /\ missing' = {}
  /\ df_lodd' = <<>>
  /\ agg' = <<>>
  /\ bilder' = <<>>
  /\ tab_i' = 0
  /\ out' = <<Msg("info", "upload")>>
  /\ non_multiple_view' = <<>>
  /\ tabs_out' = <<>>
  /\ UNCHANGED settings

Next ==
  \/ Upload \/ ScanRow \/ HeaderFound \/ HeaderMissing \/ CheckColumns \/ FilterRows \/ ExtractBilde
  \/ BruttoNumeric \/ BuildNames \/ ReduceNames \/ Aggregate
  \/ ReportNonMultiple \/ RenderSummary \/ RenderTab \/ Footer \/ Reset

Spec == Init /\ [][Next]_vars

(***************************************************************************)
(* find_header_row on long sheets: the run starts at read_vipps_report     *)
(* with a sheet of noise rows and up to two rows that carry a marker-like  *)
(* cell, placed around the start of the sheet and around the scan limit    *)
(***************************************************************************)
Around == 2

sVipps == <<"V","i","p","p","s">>
NoiseRow == <<Txt(sVipps), NaN>>
MarkerTexts == {
  sSalgssted,
  Lower(sSalgssted),
  sSalgsstedet,
  sSalgssted \o <<"_","n","r">>,
  <<"x">> \o sSalgssted,
  sVipps \o <<" ">> \o sSalgssted \o <<"-","2">>
}
AtStart == 0..Around
AtLimit == (ScanLimit - Around)..(ScanLimit + Around)

\* n noise rows, with row p (0-based) carrying text a and row q carrying b
SheetWith(n, p, a, q, b) ==
  [i \in 1..n |-> IF i = q + 1 THEN <<NaN, Txt(b)>>
                  ELSE IF i = p + 1 THEN <<NaN, Txt(a)>>
                  ELSE NoiseRow]

\* short sheets with two marker-like rows anywhere, and sheets about as long
\* as the scan limit with a decoy early and a marker-like row near the limit
HeaderSheets ==
  { SheetWith(n, p, a, q, b) :
      n \in 0..(Around + 1), p \in AtStart, q \in AtStart, a \in MarkerTexts, b \in MarkerTexts }
  \cup { SheetWith(n, Around, sSalgsstedet, q, b) :
           n \in AtLimit, q \in AtLimit, b \in MarkerTexts }

InitHeader ==
  /\ pc = "read"
  /\ uploaded = TRUE
  /\ raw \in HeaderSheets
  /\ loddpris = DefaultLoddpris
  /\ name_mode = "Fullt navn"
  /\ round_down = TRUE
  /\ scan_i = 0
  /\ header_row = NoRow
  /\ df = NoFrame
  /\ missing = {}
  /\ df_lodd = <<>>
  /\ agg = <<>>
  /\ bilder = <<>>
  /\ tab_i = 0
  /\ out = <<>>
  /\ non_multiple_view = <<>>
  /\ tabs_out = <<>>

NextHeader == ScanRow \/ HeaderFound \/ HeaderMissing \/ CheckColumns

SpecHeader == InitHeader /\ [][NextHeader]_vars

(***************************************************************************)
(* build_full_name on one ticket row: the run is at line 197 with one row  *)
(* whose name columns are absent or hold a cell of NameCells               *)
(***************************************************************************)
sBo == <<"B","o">>
NameTexts == {
  <<>>,
  <<" ">>,
  sNan,
  <<"N","a","n">>,
  sAnna,
  <<" ">> \o sBo \o <<" ">>,
  sLi,
  sCy \o <<" ">> \o sNan
}
NameCells == {NaN} \cup { Txt(t) : t \in NameTexts }

\* a name column: absent from the frame, or present with a cell
Absent == [k |-> "absent", s |-> <<>>, n |-> 0]
NameColumn == {Absent} \cup NameCells

OptCol(label, c) == IF c = Absent THEN <<>> ELSE <<label>>
OptCell(c) == IF c = Absent THEN <<>> ELSE <<c>>

InitName ==
  /\ pc = "names"
  /\ uploaded = TRUE
  /\ \E f \in NameColumn, e \in NameColumn, m \in NameColumn :
       LET cols == <<sSalgssted, sTransaksjonstype, sBrutto>>
                   \o OptCol(sFornavn, f) \o OptCol(sEtternavn, e) \o OptCol(sMelding, m)
           cells == <<Txt(sLoddBilde \o <<" ","A">>), Txt(<<"S","a","l","g">>), Num(DefaultLoddpris)>>
                    \o OptCell(f) \o OptCell(e) \o OptCell(m)
       IN /\ raw = <<[j \in 1..Len(cols) |-> Txt(cols[j])], cells>>
          /\ df = [columns |-> cols, rows |-> <<cells>>]
          /\ df_lodd = <<[cells |-> cells, Bilde |-> "A", Brutto |-> DefaultLoddpris, Navn |-> <<>>]>>
  /\ loddpris = DefaultLoddpris
  /\ name_mode \in NameModes
  /\ round_down = TRUE
  /\ scan_i = 0
  /\ header_row = 0
  /\ missing = {}
  /\ agg = <<>>
  /\ bilder = <<>>
  /\ tab_i = 0
  /\ out = <<>>
  /\ non_multiple_view = <<>>
  /\ tabs_out = <<>>

NextName == BuildNames \/ ReduceNames

SpecName == InitName /\ [][NextName]_vars

(***************************************************************************)
(* Properties                                                              *)
(***************************************************************************)
Abs(x) == IF x < 0 THEN 0 - x ELSE x
Count(seq, x) == Cardinality({ i \in 1..Len(seq) : seq[i] = x })
Kinds(k) == { i \in 1..Len(out) : out[i].kind = k }
Shown(k, w) == \E i \in 1..Len(out) : out[i] = Msg(k, w)

\* the aggregate table exists
Aggregated == pc \in {"non_multiple", "summary", "tabs", "crashed", "done"}
\* the non-multiple report has run
Reported == pc \in {"summary", "tabs", "crashed", "done"}

\* sum of the gross amounts of all ticket rows of one (artwork, name) pair
PairRows(b, n) == { i \in 1..Len(df_lodd) : df_lodd[i].Bilde = b /\ df_lodd[i].Navn = n }
RECURSIVE SumOver(_)
SumOver(I) ==
  IF I = {} THEN 0
  ELSE LET i == CHOOSE x \in I : TRUE IN df_lodd[i].Brutto + SumOver(I \ {i})

\* C1: in floor mode the aggregate table has exactly one entry per distinct
\* (artwork letter, resolved name) pair of the ticket rows, and the entry's
\* ticket count is the floor of (sum of the gross of all rows of the pair)
\* over the unit price: count * price <= sum < (count + 1) * price.
C1_FloorOfPairSum ==
  (Aggregated /\ round_down) =>
    /\ \A i, j \in 1..Len(agg) :
         (agg[i].Bilde = agg[j].Bilde /\ agg[i].Navn = agg[j].Navn) => i = j
    /\ { <<agg[i].Bilde, agg[i].Navn>> : i \in 1..Len(agg) }
         = { <<df_lodd[i].Bilde, df_lodd[i].Navn>> : i \in 1..Len(df_lodd) }
    /\ \A i \in 1..Len(agg) :
         LET S == SumOver(PairRows(agg[i].Bilde, agg[i].Navn))
         IN /\ agg[i].Brutto = S
            /\ agg[i].Lodd * loddpris <= S
            /\ S < (agg[i].Lodd + 1) * loddpris

\* two rows of 15 of one buyer and artwork at unit price 20 give 1 ticket
C1_Witness ==
  /\ Aggregated /\ round_down /\ loddpris = 20
  /\ \E i \in 1..Len(agg) :
       /\ agg[i].Lodd = 1
       /\ \E a, b \in PairRows(agg[i].Bilde, agg[i].Navn) :
            a # b /\ df_lodd[a].Brutto = 15 /\ df_lodd[b].Brutto = 15
       /\ Cardinality(PairRows(agg[i].Bilde, agg[i].Navn)) = 2

\* unclamped count of a name in an artwork, from the aggregate table
EntriesOf(b) == { i \in 1..Len(agg) : agg[i].Bilde = b }
ClampedOf(b, n) ==
  LET I == { i \in EntriesOf(b) : agg[i].Navn = n }
  IN IF I = {} THEN 0 ELSE Max(agg[CHOOSE i \in I : TRUE].Lodd, 0)

\* C2: in every rendered tab the ticket list holds each buyer's name exactly
\* max(ticket count, 0) times and no other name, ordered by clamped ticket
\* count descending and then by name ascending, also when entries of the
\* artwork have negative unclamped counts.
C2_WheelNames ==
  \A t \in 1..Len(tabs_out) :
    LET b == tabs_out[t].bilde
        w == tabs_out[t].wheel_names
    IN /\ \A i \in EntriesOf(b) : Count(w, agg[i].Navn) = Max(agg[i].Lodd, 0)
       /\ \A k \in 1..Len(w) : \E i \in EntriesOf(b) : agg[i].Navn = w[k]
       /\ \A k \in 1..(Len(w) - 1) :
            \/ ClampedOf(b, w[k]) > ClampedOf(b, w[k + 1])
            \/ /\ ClampedOf(b, w[k]) = ClampedOf(b, w[k + 1])
               /\ (w[k] = w[k + 1] \/ StrLess(w[k], w[k + 1]))

\* a tab with a negative entry, and two buyers with equal positive counts
C2_Witness ==
  \E t \in 1..Len(tabs_out) :
    LET b == tabs_out[t].bilde
        w == tabs_out[t].wheel_names
    IN /\ \E i \in EntriesOf(b) : agg[i].Lodd < 0
       /\ \E k \in 1..(Len(w) - 1) :
            w[k] # w[k + 1] /\ ClampedOf(b, w[k]) = ClampedOf(b, w[k + 1])

IsMultiple(x, p) == \E k \in (0 - Abs(x))..Abs(x) : k * p = x
InView(e) ==
  \E i \in 1..Len(non_multiple_view) :
    /\ non_multiple_view[i].Bilde = e.Bilde
    /\ non_multiple_view[i].Navn = e.Navn
    /\ non_multiple_view[i].Brutto = e.Brutto
    /\ non_multiple_view[i].Lodd_raw = e.Lodd_raw

\* the count follows the configured rounding policy
CountFollowsPolicy(e) ==
  IF round_down
  THEN e.Lodd * loddpris <= e.Brutto /\ e.Brutto < (e.Lodd + 1) * loddpris
  ELSE 2 * Abs(e.Brutto - e.Lodd * loddpris) <= loddpris

\* C8: an aggregate entry is in the non-multiple table iff its summed gross
\* is not an integer multiple of the unit price (negative sums included, 0
\* and exact negative multiples excluded); the warning and the table are
\* rendered only when such an entry exists; and the run then goes on to the
\* tabs, one per artwork, with counts computed by the rounding policy.
C8_NonMultipleReport ==
  Reported =>
    /\ \A i \in 1..Len(agg) : InView(agg[i]) <=> ~IsMultiple(agg[i].Brutto, loddpris)
    /\ Len(non_multiple_view)
         = Cardinality({ i \in 1..Len(agg) : ~IsMultiple(agg[i].Brutto, loddpris) })
    /\ Shown("warning", "non_multiple") <=> non_multiple_view # <<>>
    /\ Shown("warning", "non_multiple") =>
         /\ pc \in {"summary", "tabs", "done"}
         /\ \A i \in 1..Len(agg) : CountFollowsPolicy(agg[i])
         /\ pc = "done" =>
              /\ Len(tabs_out) = Len(bilder)
              /\ Len(tabs_out) >= 1
              /\ \A i \in 1..Len(agg) :
                   \E t \in 1..Len(tabs_out) :
                     /\ tabs_out[t].bilde = agg[i].Bilde
                     /\ \E k \in 1..Len(tabs_out[t].sub) :
                          /\ tabs_out[t].sub[k].Navn = agg[i].Navn
                          /\ tabs_out[t].sub[k].Lodd = agg[i].Lodd

\* unit price 20, sum 45: flagged, floor count 2, and its tab is rendered
C8_Witness ==
  /\ pc = "done" /\ loddpris = 20 /\ round_down
  /\ \E i \in 1..Len(agg) :
       /\ agg[i].Brutto = 45 /\ agg[i].Lodd = 2 /\ InView(agg[i])
       /\ \E t \in 1..Len(tabs_out) : tabs_out[t].bilde = agg[i].Bilde
  /\ \E i \in 1..Len(agg) : agg[i].Brutto < 0 /\ ~InView(agg[i])

\* the maximal runs of word characters of a text, as (first, last) positions
WordRuns(s) ==
  { r \in (1..Len(s)) \X (1..Len(s)) :
      /\ r[1] <= r[2]
      /\ \A k \in r[1]..r[2] : IsWordChar(s[k])
      /\ (IF r[1] = 1 THEN TRUE ELSE ~IsWordChar(s[r[1] - 1]))
      /\ (IF r[2] = Len(s) THEN TRUE ELSE ~IsWordChar(s[r[2] + 1])) }
\* the text has the word w, in any letter case
HasWord(s, w) == \E r \in WordRuns(s) : Lower(SubSeq(s, r[1], r[2])) = Lower(w)
RowHasWord(row, w) == \E j \in 1..Len(row) : HasWord(Str(row[j]), w)
RowHasText(row, t) == \E j \in 1..Len(row) : row[j] = Txt(t)

\* C6: find_header_row returns the smallest row index below min(number of
\* rows, 200) with a cell that has the word 'Salgssted' (any letter case),
\* and None when there is none: a longer word such as 'Salgsstedet' is never
\* selected, and a marker only at index >= 200 gives None and the format
\* error.
C6_FirstMarkerRow ==
  pc # "read" =>
    LET limit == IF Len(raw) < 200 THEN Len(raw) ELSE 200
        hits == { i \in 0..(limit - 1) : RowHasWord(raw[i + 1], sSalgssted) }
    IN IF hits = {}
       THEN header_row = NoRow /\ pc = "stopped" /\ out = <<Msg("error", "header")>>
       ELSE header_row \in hits /\ \A j \in hits : header_row <= j

\* 'Salgsstedet' early in the sheet, the word itself only at index 200: None
C6_Witness ==
  /\ pc = "stopped"
  /\ header_row = NoRow
  /\ Len(raw) > 200
  /\ RowHasText(raw[201], sSalgssted)
  /\ \E i \in 1..200 : RowHasText(raw[i], sSalgsstedet)

(***************************************************************************)
(* build_full_name                                                         *)
(***************************************************************************)
\* the row of the name run and its three name fields: present when the
\* column exists and the cell is not missing
NameRow == df_lodd[1]
Present(label) ==
  /\ HasColumn(df.columns, label)
  /\ NameRow.cells[ColIndex(df.columns, label)].k # "na"
Trimmed(label) == Strip(Str(NameRow.cells[ColIndex(df.columns, label)]))
\* usable as the claim words it: present, non-empty after trimming, not 'nan'
Usable(label) == Present(label) /\ Trimmed(label) # <<>> /\ Trimmed(label) # sNan
\* usable as the code tests it: 'nan' in any letter case counts as missing
UsableAnyCase(label) ==
  Present(label) /\ Trimmed(label) # <<>> /\ Lower(Trimmed(label)) # sNan
EndsWith(s, t) == Len(s) >= Len(t) /\ SubSeq(s, Len(s) - Len(t) + 1, Len(s)) = t
Named == pc = "name_mode"

\* C3 as stated: first name (plus last name when usable), else the message,
\* else the sentinel, where 'nan' is the literal text; the result is never
\* empty and never ends in ' nan'.
C3_AsStated ==
  Named =>
    /\ Usable(sFornavn) /\ Usable(sEtternavn) =>
         NameRow.Navn = Trimmed(sFornavn) \o <<" ">> \o Trimmed(sEtternavn)
    /\ Usable(sFornavn) /\ ~Usable(sEtternavn) => NameRow.Navn = Trimmed(sFornavn)
    /\ ~Usable(sFornavn) /\ Usable(sMelding) => NameRow.Navn = Trimmed(sMelding)
    /\ ~Usable(sFornavn) /\ ~Usable(sMelding) => NameRow.Navn = sUkjent
    /\ NameRow.Navn # <<>>
    /\ ~EndsWith(NameRow.Navn, <<" ">> \o sNan)

\* C3 amended: the same precedence on the trimmed fields, with 'nan' in any
\* letter case counting as missing; the message is never used when the first
\* name is usable; the result is never empty, and a missing or 'nan' last
\* name is never appended.
C3_Precedence ==
  Named =>
    /\ UsableAnyCase(sFornavn) /\ UsableAnyCase(sEtternavn) =>
         NameRow.Navn = Trimmed(sFornavn) \o <<" ">> \o Trimmed(sEtternavn)
    /\ UsableAnyCase(sFornavn) /\ ~UsableAnyCase(sEtternavn) =>
         NameRow.Navn = Trimmed(sFornavn)
    /\ ~UsableAnyCase(sFornavn) /\ UsableAnyCase(sMelding) =>
         NameRow.Navn = Trimmed(sMelding)
    /\ ~UsableAnyCase(sFornavn) /\ ~UsableAnyCase(sMelding) => NameRow.Navn = sUkjent
    /\ NameRow.Navn # <<>>

\* first name 'Anna', last name missing, a usable message: the name is 'Anna'
C3_Witness ==
  /\ Named
  /\ UsableAnyCase(sFornavn) /\ Trimmed(sFornavn) = sAnna
  /\ HasColumn(df.columns, sEtternavn) /\ ~Present(sEtternavn)
  /\ UsableAnyCase(sMelding)
  /\ NameRow.Navn = sAnna

(***************************************************************************)
(* Claims the script does not meet                                         *)
(***************************************************************************)
Ended == pc \in {"stopped", "crashed", "done"}
\* the filter stage was reached: a header was found and no column is missing
FilterReached == header_row # NoRow /\ missing = {} /\ pc \notin {"read", "cols", "filter", "idle"}

\* C4: when no row survives both the sale/location filter and the letter
\* extraction, the run ends with the empty-result warning and nothing else:
\* no aggregation, success message or tab step runs on the empty ticket set.
C4_EmptyResultWarns ==
  (FilterReached /\ Ended /\ df_lodd = <<>>) =>
    /\ pc = "stopped"
    /\ out = <<Msg("warning", "empty")>>
    /\ ~Shown("success", "found")

\* C5: a run that ends in a terminal error has rendered exactly one error
\* message and no aggregate output (non-multiple table, success message,
\* tabs) before or after it.
Errors == Kinds("error") \cup Kinds("exception")
C5_AllOrNothing ==
  (Ended /\ Errors # {}) =>
    /\ Cardinality(Errors) = 1
    /\ Kinds("success") = {}
    /\ ~Shown("warning", "non_multiple")
    /\ non_multiple_view = <<>>
    /\ tabs_out = <<>>

\* C7: in every rendered tab a buyer whose summed gross is negative is absent
\* from the ticket list and from the top-10 table, and the buyer's rows are
\* shown in the tab's raw-data view.
C7_NegativeBuyerInDebugView ==
  \A t \in 1..Len(tabs_out) :
    \A i \in EntriesOf(tabs_out[t].bilde) :
      agg[i].Brutto < 0 =>
        /\ Count(tabs_out[t].wheel_names, agg[i].Navn) = 0
        /\ \A k \in 1..Len(tabs_out[t].top10) : tabs_out[t].top10[k].Navn # agg[i].Navn
        /\ tabs_out[t].debug_shown
        /\ \E k \in 1..Len(tabs_out[t].df_dbg) : tabs_out[t].df_dbg[k].Navn = agg[i].Navn

\* the letter that follows the phrase 'Lodd bilde' and at least one
\* whitespace character, upper-cased; NoBilde when there is no such place
PhraseLetters(s) ==
  { UpperCh(s[r]) : r \in { r \in 1..Len(s) :
      /\ IsLetter(s[r])
      /\ \E p \in 1..Len(s) :
           /\ OccursAt(Lower(s), Lower(sLoddBilde), p)
           /\ p + Len(sLoddBilde) < r
           /\ \A k \in (p + Len(sLoddBilde))..(r - 1) : IsSpace(s[k]) } }
Extracted == pc \in {"numeric", "names", "name_mode", "agg", "non_multiple",
                     "summary", "tabs", "crashed", "done"}

\* C9: a row reaches aggregation iff its type, trimmed and lower-cased, is
\* 'salg', its location contains 'Lodd bilde' in any case and the phrase is
\* followed by whitespace and a letter; its artwork id is that letter,
\* upper-cased; any other location text gives no id and the row is dropped.
C9_TicketRows ==
  Extracted =>
    /\ \A i \in 1..Len(df_lodd) :
         /\ df_lodd[i].Bilde \in UpperSet
         /\ df_lodd[i].Bilde \in PhraseLetters(Str(df_lodd[i].cells[ColIndex(df.columns, sSalgssted)]))
    /\ \A r \in 1..Len(df.rows) :
         (\E i \in 1..Len(df_lodd) : df_lodd[i].cells = df.rows[r])
           <=> /\ Lower(Strip(Str(df.rows[r][ColIndex(df.columns, sTransaksjonstype)]))) = sSalg
               /\ PhraseLetters(Str(df.rows[r][ColIndex(df.columns, sSalgssted)])) # {}

\* the total clamped ticket count of an artwork had the other name mode been
\* chosen for the same file, unit price and rounding mode
NamedAs(mode) ==
  [i \in 1..Len(df_lodd) |->
     LET full == build_full_name(df.columns, df_lodd[i].cells)
     IN [df_lodd[i] EXCEPT !.Navn = IF mode = "Kun fornavn" THEN first_name_only(full) ELSE full]]
TotalLoddAs(mode, bilde) ==
  SumClamped(SubOf(GroupSum(NamedAs(mode), loddpris, round_down), bilde))
OtherMode == IF name_mode = "Kun fornavn" THEN "Fullt navn" ELSE "Kun fornavn"

\* C10: the name mode does not change how many tickets exist: every
\* rendered tab's total clamped ticket count, and the length of its ticket
\* list, are what the other name mode gives for the same input.
C10_NameModeKeepsTotals ==
  \A t \in 1..Len(tabs_out) :
    /\ tabs_out[t].total_lodd = TotalLoddAs(OtherMode, tabs_out[t].bilde)
    /\ Len(tabs_out[t].wheel_names) = TotalLoddAs(OtherMode, tabs_out[t].bilde)

====
